---- MODULE Spec2Model ----
(***************************************************************************)
(* A model of src/chat_statistics/stats.py (class ChatStatistics).         *)
(*                                                                         *)
(* A Python str is a sequence of characters; a character is a TLA+ string  *)
(* naming it ("a", " ", "?", ...).  The value of a message's 'text' key is *)
(* a tagged record: [kind |-> "str", val |-> <characters>] for a str,      *)
(* [kind |-> "list", val |-> <fragments>] for a list, and kind "absent"    *)
(* when the key is missing.  A list element is [kind, text] with kind      *)
(* "str" (a plain string), "dict_text" (a dict with a 'text' key) or       *)
(* "dict_notext" (a dict without one).                                     *)
(***************************************************************************)
EXTENDS Integers, Sequences, FiniteSets, TLC

VARIABLES
    chat_data,          \* self.chat_data['messages'], texts as rewritten so far
    loaded,             \* the messages as json.load returned them
    stop_words,         \* self.stop_words
    top_n,              \* argument of the last get_top_users call
    top_users,          \* its return value: a sequence of <<sender, count>>
    rank_status,        \* "idle" | "returned" | "KeyError"
    text_content,       \* the string generate_word_cloud handed to WordCloud
    cloud_status,       \* "idle" | "saved" | "KeyError" | "ValueError"
    rasterizer_called,  \* WordCloud(...).generate was called
    file_written,       \* wordcloud.png was written
    ret,                \* return value of the last msg_has_question call
    rb_arg,             \* argument of the next rebuild_msg call
    rb_hist             \* the rebuild_msg calls made: <<[arg, ret], ...>>

vars == <<chat_data, loaded, stop_words, top_n, top_users, rank_status,
          text_content, cloud_status, rasterizer_called, file_written,
          ret, rb_arg, rb_hist>>

----------------------------------------------------------------------------
\* Bounds of the model.

MaxMsgs == 2
MaxRankMsgs == 3
MaxLen == 3
MaxFrags == 2
MaxTopN == 2

----------------------------------------------------------------------------
\* Values.

QuestionMarks == {"?", "ARABIC_QM"}
Terminators == {".", "?", "ARABIC_QM"}
Whitespace == {" ", "\n"}
LetterChars == {"a", "ARABIC_YEH", "FARSI_YEH"}

Str(s) == [kind |-> "str", val |-> s]
List(fs) == [kind |-> "list", val |-> fs]
NoText == [kind |-> "absent", val |-> <<>>]

NoReply == 0 - 1
AbsentFrom == "ABSENT"

RECURSIVE SeqsUpTo(_, _)
SeqsUpTo(S, n) ==
    IF n = 0 THEN {<<>>}
    ELSE LET shorter == SeqsUpTo(S, n - 1)
         IN  shorter \cup {Append(s, c) : s \in shorter, c \in S}

----------------------------------------------------------------------------
\* rebuild_msg

\* What Python's "for sub_msg in sub_messages" yields: the elements of a list,
\* the one-character strings of a str.
Elements(sub_messages) ==
    IF sub_messages.kind = "str"
    THEN [i \in 1..Len(sub_messages.val) |->
             [kind |-> "str", text |-> <<sub_messages.val[i]>>]]
    ELSE sub_messages.val

\* a variant of the loop that joins the parts with a space
RECURSIVE rebuild_loop_sep(_, _)
rebuild_loop_sep(items, msg_text) ==
    IF items = <<>> THEN msg_text
    ELSE LET sub_msg == Head(items)
             sep == IF msg_text = <<>> THEN <<>> ELSE <<" ">>
         IN  rebuild_loop_sep(Tail(items),
                 IF sub_msg.kind = "str" THEN msg_text \o sep \o sub_msg.text
                 ELSE IF sub_msg.kind = "dict_text" THEN msg_text \o sep \o sub_msg.text
                 ELSE msg_text)

\* lines 36-43
RECURSIVE rebuild_loop(_, _)
rebuild_loop(items, msg_text) ==
    IF items = <<>> THEN msg_text
    ELSE LET sub_msg == Head(items)
         IN  rebuild_loop(Tail(items),
                 IF sub_msg.kind = "str" THEN msg_text \o sub_msg.text
                 ELSE IF sub_msg.kind = "dict_text" THEN msg_text \o sub_msg.text
                 ELSE msg_text)

rebuild_msg(sub_messages) == rebuild_loop(Elements(sub_messages), <<>>)

----------------------------------------------------------------------------
\* hazm.sent_tokenize: a run of sentence terminators followed by whitespace
\* ends a sentence; the pieces are stripped and the empty ones dropped.

RECURSIVE lstrip(_)
lstrip(s) == IF s # <<>> /\ Head(s) \in Whitespace THEN lstrip(Tail(s)) ELSE s

RECURSIVE rstrip(_)
rstrip(s) ==
    IF s # <<>> /\ s[Len(s)] \in Whitespace THEN rstrip(SubSeq(s, 1, Len(s) - 1)) ELSE s

strip(s) == rstrip(lstrip(s))

RECURSIVE split_sentences(_, _, _)
split_sentences(text, i, cur) ==
    IF i > Len(text) THEN <<cur>>
    ELSE IF text[i] \in Whitespace /\ i > 1 /\ text[i - 1] \in Terminators
         THEN <<cur>> \o split_sentences(text, i + 1, <<>>)
         ELSE split_sentences(text, i + 1, Append(cur, text[i]))

sent_tokenize(text) ==
    LET pieces == split_sentences(text, 1, <<>>)
    IN  SelectSeq([k \in 1..Len(pieces) |-> strip(pieces[k])], LAMBDA s : s # <<>>)

----------------------------------------------------------------------------
\* msg_has_question

Contains(s, c) == \E i \in 1..Len(s) : s[i] = c

\* a variant that knows the ASCII question mark only
SentenceHasMarkAsciiOnly(sentence) == Contains(sentence, "?")

\* line 55, negated: the sentence is not skipped
SentenceHasMark(sentence) ==
    ~ (~ Contains(sentence, "?") /\ ~ Contains(sentence, "ARABIC_QM"))

RECURSIVE question_loop(_)
question_loop(sentences) ==
    IF sentences = <<>> THEN "None"
    ELSE IF ~ SentenceHasMark(Head(sentences)) THEN question_loop(Tail(sentences))
    ELSE "True"

\* The call's outcome: whether msg['text'] raised KeyError, the message as the
\* call leaves it, and the return value ("True" or "None").
msg_has_question(msg) ==
    IF msg.text.kind = "absent"
    THEN [raised |-> TRUE, msg |-> msg, ret |-> "None"]
    ELSE LET text == IF msg.text.kind # "str"
                     THEN Str(rebuild_msg(msg.text))
                     ELSE msg.text
         IN  [raised |-> FALSE,
              msg |-> [msg EXCEPT !.text = text],
              ret |-> question_loop(sent_tokenize(text.val))]

----------------------------------------------------------------------------
\* hazm.Normalizer.normalize, as far as the characters of the model go: Arabic
\* yeh is unified to Farsi yeh and a run of spaces becomes one space.

normalize_char(c) == IF c = "ARABIC_YEH" THEN "FARSI_YEH" ELSE c

RECURSIVE squeeze_spaces(_)
squeeze_spaces(s) ==
    IF Len(s) < 2 THEN s
    ELSE IF s[1] = " " /\ s[2] = " " THEN squeeze_spaces(Tail(s))
    ELSE <<s[1]>> \o squeeze_spaces(Tail(s))

normalize(text) == squeeze_spaces([i \in 1..Len(text) |-> normalize_char(text[i])])

\* hazm.word_tokenize: a run of question marks and a full stop are tokens of
\* their own; the rest is split at whitespace.
Flush(cur) == IF cur = <<>> THEN <<>> ELSE <<cur>>

RECURSIVE tokenize_loop(_, _, _)
tokenize_loop(text, i, cur) ==
    IF i > Len(text) THEN Flush(cur)
    ELSE LET c == text[i]
             in_marks == cur # <<>> /\ cur[Len(cur)] \in QuestionMarks
         IN  IF c \in Whitespace
             THEN Flush(cur) \o tokenize_loop(text, i + 1, <<>>)
             ELSE IF c = "."
             THEN Flush(cur) \o << <<c>> >> \o tokenize_loop(text, i + 1, <<>>)
             ELSE IF (c \in QuestionMarks) = in_marks
             THEN tokenize_loop(text, i + 1, Append(cur, c))
             ELSE Flush(cur) \o tokenize_loop(text, i + 1, <<c>>)

word_tokenize(text) == tokenize_loop(text, 1, <<>>)

\* ' '.join(tokens)
RECURSIVE join(_)
join(tokens) ==
    IF tokens = <<>> THEN <<>>
    ELSE IF Len(tokens) = 1 THEN tokens[1]
    ELSE tokens[1] \o <<" ">> \o join(Tail(tokens))

\* arabic_reshaper.reshape: every letter becomes the presentation form its
\* neighbours call for; other characters are kept.
IsLetter(c) == c \in LetterChars

reshape(text) ==
    [i \in 1..Len(text) |->
        IF ~ IsLetter(text[i]) THEN text[i]
        ELSE LET prev == i > 1 /\ IsLetter(text[i - 1])
                 next == i < Len(text) /\ IsLetter(text[i + 1])
             IN  IF prev /\ next THEN text[i] \o ".medial"
                 ELSE IF prev THEN text[i] \o ".final"
                 ELSE IF next THEN text[i] \o ".initial"
                 ELSE text[i] \o ".isolated"]

\* __init__, lines 30-32: the lines of stopwords.txt, stripped and normalized
load_stop_words(lines) == {normalize(strip(lines[k])) : k \in 1..Len(lines)}

\* line 96: the tokens that are not in self.stop_words, compared as they are
filter_tokens(tokens, stopset) ==
    SelectSeq(tokens, LAMBDA item : item \notin stopset)

\* lines 91-97; raised when a message has no 'text'
RECURSIVE corpus_loop(_, _, _, _)
corpus_loop(data, k, stopset, acc) ==
    IF k > Len(data) THEN [raised |-> FALSE, text |-> acc]
    ELSE IF data[k].text.kind = "absent" THEN [raised |-> TRUE, text |-> acc]
    ELSE IF data[k].text.kind = "str"
         THEN LET tokens == filter_tokens(word_tokenize(data[k].text.val), stopset)
              IN  corpus_loop(data, k + 1, stopset, acc \o <<" ">> \o join(tokens))
         ELSE corpus_loop(data, k + 1, stopset, acc)

\* lines 91-101: the loop, then normalize and reshape
build_text_content(data, stopset) ==
    LET r == corpus_loop(data, 1, stopset, <<>>)
    IN  [raised |-> r.raised, text |-> reshape(normalize(r.text))]

\* WordCloud.generate raises ValueError when the text holds no word
HasWord(text) == \E i \in 1..Len(text) : text[i] \notin (Whitespace \cup Terminators)

----------------------------------------------------------------------------
\* get_top_users

\* lines 67-70: is_question is the set of ids stored as True; the messages
\* before a KeyError keep their rewritten text
RECURSIVE first_pass(_, _, _)
first_pass(data, k, is_question) ==
    IF k > Len(data) THEN [raised |-> FALSE, data |-> data, is_question |-> is_question]
    ELSE LET r == msg_has_question(data[k])
         IN  IF r.raised
             THEN [raised |-> TRUE, data |-> data, is_question |-> is_question]
             ELSE first_pass([data EXCEPT ![k] = r.msg], k + 1,
                             IF r.ret = "True" THEN is_question \cup {data[k].id}
                             ELSE is_question)

\* line 76: "not msg.get('reply_to_message_id')" holds for a missing key and for 0
HasReply(msg) == msg.reply_to_message_id # NoReply /\ msg.reply_to_message_id # 0

\* a variant for a plain dict read with get: None for an id never stored
LookupMissingIsNone(is_question, known, id) ==
    IF id \in is_question THEN "True" ELSE IF id \in known THEN "False" ELSE "None"

\* line 78: is_question[id], a defaultdict(bool): False for an id never stored
Lookup(is_question, known, id) == IF id \in is_question THEN "True" ELSE "False"

\* lines 74-81; known is the set of keys is_question holds
RECURSIVE second_pass(_, _, _, _, _)
second_pass(data, k, is_question, known, users) ==
    IF k > Len(data) THEN [raised |-> FALSE, users |-> users]
    ELSE LET msg == data[k]
         IN  IF ~ HasReply(msg)
             THEN second_pass(data, k + 1, is_question, known, users)
             ELSE IF Lookup(is_question, known, msg.reply_to_message_id) = "False"
             THEN second_pass(data, k + 1, is_question,
                              known \cup {msg.reply_to_message_id}, users)
             ELSE IF msg.from = AbsentFrom
             THEN [raised |-> TRUE, users |-> users]
             ELSE second_pass(data, k + 1, is_question, known, Append(users, msg.from))

\* Counter(users): the senders in the order they first occur, with their counts
Count(users, s) == Cardinality({i \in 1..Len(users) : users[i] = s})

RECURSIVE Counter(_, _)
Counter(users, seen) ==
    IF users = <<>> THEN <<>>
    ELSE IF Head(users) \in seen THEN Counter(Tail(users), seen)
    ELSE << <<Head(users), 1 + Count(Tail(users), Head(users))>> >>
         \o Counter(Tail(users), seen \cup {Head(users)})

\* sorted(items, key=count, reverse=True): stable, ties keep their order
RECURSIVE insert_desc(_, _)
insert_desc(sorted, item) ==
    IF sorted = <<>> THEN <<item>>
    ELSE IF Head(sorted)[2] >= item[2] THEN <<Head(sorted)>> \o insert_desc(Tail(sorted), item)
    ELSE <<item>> \o sorted

RECURSIVE sort_desc(_, _)
sort_desc(items, sorted) ==
    IF items = <<>> THEN sorted
    ELSE sort_desc(Tail(items), insert_desc(sorted, Head(items)))

\* a variant that does not cut the result to n entries
most_common_all(items, n) == sort_desc(items, <<>>)

\* Counter.most_common(n) = heapq.nlargest(n, items, key=count)
most_common(items, n) ==
    IF n <= 0 THEN <<>>
    ELSE LET sorted == sort_desc(items, <<>>)
         IN  IF n >= Len(sorted) THEN sorted ELSE SubSeq(sorted, 1, n)

get_top_users(data, n) ==
    LET p1 == first_pass(data, 1, {})
    IN  IF p1.raised
        THEN [raised |-> TRUE, data |-> p1.data, result |-> <<>>]
        ELSE LET p2 == second_pass(p1.data, 1, p1.is_question, p1.is_question, <<>>)
             IN  IF p2.raised
                 THEN [raised |-> TRUE, data |-> p1.data, result |-> <<>>]
                 ELSE [raised |-> FALSE, data |-> p1.data,
                       result |-> most_common(Counter(p2.users, {}), n)]

----------------------------------------------------------------------------
\* The inputs.

Senders == {"A", "B", AbsentFrom}
TopNs == (0 - 1)..MaxTopN

\* the texts of the messages of a collection
TextPool ==
    { NoText,
      Str(<<"a">>),
      Str(<<"a", "?">>),
      Str(<<"ARABIC_YEH">>),
      List(<< [kind |-> "str", text |-> <<"a">>],
              [kind |-> "dict_text", text |-> <<"?">>] >>) }

\* stopwords.txt: empty, or two lines
StopwordFiles ==
    { <<>>, << <<"a", "\n">>, <<"ARABIC_YEH", "\n">> >> }

MsgFields ==
    [from : Senders, reply_to_message_id : {NoReply} \cup 0..MaxMsgs, text : TextPool]

\* the texts a single message is given when the text functions are exercised
TextChars == {"a", " ", ".", "?", "ARABIC_QM"}
FragTexts ==
    { <<>>, <<"a">>, <<"?">>, <<"ARABIC_QM">>, <<" ">>, <<"a", " ">>, <<"?", " ">>,
      <<".", " ">> }
Fragments ==
    [kind : {"str", "dict_text"}, text : FragTexts]
        \cup {[kind |-> "dict_notext", text |-> <<>>]}
TextInputs ==
    {Str(s) : s \in SeqsUpTo(TextChars, MaxLen)}
        \cup {List(fs) : fs \in SeqsUpTo(Fragments, MaxFrags)}

----------------------------------------------------------------------------
\* The state machine.

Idle ==
    /\ top_n = 0
    /\ top_users = <<>>
    /\ rank_status = "idle"
    /\ text_content = <<>>
    /\ cloud_status = "idle"
    /\ rasterizer_called = FALSE
    /\ file_written = FALSE
    /\ ret = "unset"
    /\ rb_hist = <<>>

\* __init__: a collection of up to MaxMsgs messages with consecutive ids
Init ==
    /\ \E n \in 0..MaxMsgs, first_id \in {0, 1} :
          \E f \in [1..n -> MsgFields] :
             chat_data = [k \in 1..n |->
                            [id |-> first_id + k - 1,
                             from |-> f[k].from,
                             reply_to_message_id |-> f[k].reply_to_message_id,
                             text |-> f[k].text]]
    /\ loaded = chat_data
    /\ \E lines \in StopwordFiles : stop_words = load_stop_words(lines)
    /\ rb_arg = Str(<<>>)
    /\ Idle

\* __main__ calls each of the two methods once on an instance; the model makes
\* the two calls in either order.
GetTopUsers ==
    \E n \in TopNs :
       LET r == get_top_users(chat_data, n)
       IN  /\ rank_status = "idle"
           /\ chat_data' = r.data
           /\ top_n' = n
           /\ rank_status' = IF r.raised THEN "KeyError" ELSE "returned"
           /\ top_users' = IF r.raised THEN <<>> ELSE r.result
           /\ UNCHANGED <<loaded, stop_words, text_content, cloud_status,
                          rasterizer_called, file_written, ret, rb_arg, rb_hist>>

GenerateWordCloud ==
    LET r == build_text_content(chat_data, stop_words)
    IN  /\ cloud_status = "idle"
        /\ text_content' = IF r.raised THEN <<>> ELSE r.text
        /\ rasterizer_called' = ~ r.raised
        /\ file_written' = (~ r.raised /\ HasWord(r.text))
        /\ cloud_status' = IF r.raised THEN "KeyError"
                           ELSE IF HasWord(r.text) THEN "saved"
                           ELSE "ValueError"
        /\ UNCHANGED <<chat_data, loaded, stop_words, top_n, top_users, rank_status,
                       ret, rb_arg, rb_hist>>

Next == GetTopUsers \/ GenerateWordCloud

Spec == Init /\ [][Next]_vars

\* One message, its text any of TextInputs, for the text functions.
InitText ==
    /\ \E t \in TextInputs :
          /\ chat_data = << [id |-> 1, from |-> "A",
                             reply_to_message_id |-> NoReply, text |-> t] >>
          /\ rb_arg = t
    /\ loaded = chat_data
    /\ stop_words = {}
    /\ Idle

MsgHasQuestionCall ==
    \E k \in 1..Len(chat_data) :
       LET r == msg_has_question(chat_data[k])
       IN  /\ ~ r.raised
           /\ ret' = r.ret
           /\ chat_data' = [chat_data EXCEPT ![k] = r.msg]
           /\ UNCHANGED <<loaded, stop_words, top_n, top_users, rank_status,
                          text_content, cloud_status, rasterizer_called,
                          file_written, rb_arg, rb_hist>>

\* rebuild_msg is called, and its output is the argument of the next call
RebuildMsgCall ==
    /\ Len(rb_hist) < 2
    /\ LET out == Str(rebuild_msg(rb_arg))
       IN  /\ rb_hist' = Append(rb_hist, [arg |-> rb_arg, ret |-> out])
           /\ rb_arg' = out
    /\ UNCHANGED <<chat_data, loaded, stop_words, top_n, top_users, rank_status,
                   text_content, cloud_status, rasterizer_called, file_written, ret>>

NextText == MsgHasQuestionCall \/ RebuildMsgCall

SpecText == InitText /\ [][NextText]_vars

\* Well-formed collections of up to MaxRankMsgs messages, every message with
\* a sender and a plain text.  The ids are 2..n+1 and a reply names an id of
\* 1..n: the message with id 1 is not part of the export.
RankFields(n) ==
    [from : {"A", "B"}, reply_to_message_id : {NoReply} \cup 1..n,
     text : {Str(<<"a">>), Str(<<"a", "?">>)}]

InitRank ==
    /\ \E n \in 0..MaxRankMsgs :
          \E f \in [1..n -> RankFields(n)] :
             chat_data = [k \in 1..n |->
                            [id |-> k + 1,
                             from |-> f[k].from,
                             reply_to_message_id |-> f[k].reply_to_message_id,
                             text |-> f[k].text]]
    /\ loaded = chat_data
    /\ stop_words = {}
    /\ rb_arg = Str(<<>>)
    /\ Idle

\* the ranking alone
NextRank == GetTopUsers

SpecRank == InitRank /\ [][NextRank]_vars

----------------------------------------------------------------------------
\* What the claims speak of, read off the messages as loaded.

HasMarkIn(s) == \E i \in 1..Len(s) : s[i] \in QuestionMarks

\* the text holds a question mark, in the string or in any textual fragment
IsQuestionText(t) ==
    \/ t.kind = "str" /\ HasMarkIn(t.val)
    \/ /\ t.kind = "list"
       /\ \E j \in 1..Len(t.val) :
             t.val[j].kind \in {"str", "dict_text"} /\ HasMarkIn(t.val[j].text)

Msgs == 1..Len(loaded)
Ids == {loaded[k].id : k \in Msgs}

\* message k has a reply_to_message_id and it names a question of the collection
RepliesToQuestion(k) ==
    /\ loaded[k].reply_to_message_id # NoReply
    /\ \E j \in Msgs : /\ loaded[j].id = loaded[k].reply_to_message_id
                       /\ IsQuestionText(loaded[j].text)

\* ... a question of the collection that another sender asked
RepliesToOthersQuestion(k) ==
    /\ loaded[k].reply_to_message_id # NoReply
    /\ \E j \in Msgs : /\ loaded[j].id = loaded[k].reply_to_message_id
                       /\ IsQuestionText(loaded[j].text)
                       /\ loaded[j].from # loaded[k].from

\* the count get_top_users returned for sender s, 0 when s is not in the result
Credit(s) ==
    IF \E i \in 1..Len(top_users) : top_users[i][1] = s
    THEN (CHOOSE e \in {top_users[i] : i \in 1..Len(top_users)} : e[1] = s)[2]
    ELSE 0

Answers(s) == Cardinality({k \in Msgs : loaded[k].from = s /\ RepliesToQuestion(k)})

AnswersToOthers(s) ==
    Cardinality({k \in Msgs : loaded[k].from = s /\ RepliesToOthersQuestion(k)})

Returned == rank_status = "returned"
Untruncated == Returned /\ top_n >= 2

\* str.split(): the words of a string
RECURSIVE split(_, _)
split(text, cur) ==
    IF text = <<>> THEN Flush(cur)
    ELSE IF Head(text) \in Whitespace THEN Flush(cur) \o split(Tail(text), <<>>)
    ELSE split(Tail(text), Append(cur, Head(text)))

CorpusWords == LET w == split(text_content, <<>>) IN {w[i] : i \in 1..Len(w)}

CloudRan == cloud_status \in {"saved", "ValueError", "EmptyCorpus"}

PlainTokens(data) ==
    UNION { LET t == word_tokenize(data[k].text.val) IN {t[i] : i \in 1..Len(t)} :
            k \in {j \in 1..Len(data) : data[j].text.kind = "str"} }

----------------------------------------------------------------------------
\* The claims.

\* C1: get_top_users credits a sender only for messages whose
\* reply_to_message_id names a question of the collection: no sender's count
\* exceeds the number of that sender's replies to a question, so a reply to a
\* non-question and a reply to an id of no loaded message add nothing.
C1_CreditOnlyForQuestionReplies ==
    Returned => \A i \in 1..Len(top_users) : top_users[i][2] <= Answers(top_users[i][1])

\* some sender was credited while one message replies to an id that no loaded
\* message has and another replies to a loaded message that is no question
C1_Witness ==
    /\ Returned
    /\ top_users # <<>>
    /\ \E k \in Msgs : /\ loaded[k].reply_to_message_id \notin {NoReply, 0}
                       /\ loaded[k].reply_to_message_id \notin Ids
    /\ \E k \in Msgs : /\ loaded[k].reply_to_message_id \in Ids
                       /\ ~ RepliesToQuestion(k)

\* C2 as amended: get_top_users(top_n=N) returns at most max(N, 0) entries,
\* sorted by non-increasing count (equal counts may follow each other).
C2_AtMostNSortedNonIncreasing ==
    Returned =>
        /\ Len(top_users) <= (IF top_n > 0 THEN top_n ELSE 0)
        /\ \A i, j \in 1..Len(top_users) : i < j => top_users[i][2] >= top_users[j][2]

\* the result was cut to one entry, and it is the sender with two answers
\* although the other sender was credited first
C2_Witness ==
    /\ Returned
    /\ top_n = 1
    /\ Len(top_users) = 1
    /\ top_users[1][2] = 2
    /\ \E s \in {"A", "B"} : s # top_users[1][1] /\ Answers(s) = 1
    /\ \E k \in Msgs : /\ RepliesToQuestion(k)
                       /\ loaded[k].from # top_users[1][1]
                       /\ \A j \in 1..(k - 1) : ~ RepliesToQuestion(j)

\* C2 as stated: at most N entries, strictly sorted by descending count.
C2_Original ==
    Returned =>
        /\ Len(top_users) <= top_n
        /\ \A i, j \in 1..Len(top_users) : i < j => top_users[i][2] > top_users[j][2]

\* C3: every message replying to a question of the collection credits its
\* sender exactly once, whatever the target's id: untruncated, each sender's
\* count is the number of that sender's replies to a question.
C3_EveryQuestionReplyCredited ==
    Untruncated => \A s \in {"A", "B"} : Credit(s) = Answers(s)

\* C4: a reply to the sender's own question adds nothing: untruncated, no
\* sender's count exceeds the number of replies to questions of others.
C4_OnlyQuestionsOfOthers ==
    Untruncated => \A s \in {"A", "B"} : Credit(s) <= AnswersToOthers(s)

\* C5: the corpus generate_word_cloud builds is the one built from the
\* messages as loaded, whether get_top_users ran before it or not.
C5_CorpusIndependentOfRanking ==
    CloudRan => text_content = build_text_content(loaded, stop_words).text

\* C6: a token of a plain-text message that equals a stopword after
\* normalization is not in the corpus.
C6_NormalizedStopwordsExcluded ==
    CloudRan =>
        \A token \in PlainTokens(loaded) :
            normalize(token) \in stop_words => reshape(normalize(token)) \notin CorpusWords

\* C7: when every token of every plain-text message is a stopword,
\* generate_word_cloud ends in an "empty corpus" failure, the rasterizer not
\* called and no file written.
C7_EmptyCorpusFailure ==
    (cloud_status \notin {"idle", "KeyError"} /\ PlainTokens(chat_data) \subseteq stop_words) =>
        /\ cloud_status = "EmptyCorpus"
        /\ ~ rasterizer_called
        /\ ~ file_written

\* C8: a message lacking a field never aborts get_top_users or
\* generate_word_cloud.
C8_MissingFieldNeverAborts ==
    rank_status # "KeyError" /\ cloud_status # "KeyError"

\* C9: msg_has_question returns True exactly when the message's text, as a
\* string or in its fragments, holds '?' or the Arabic question mark at any
\* position; otherwise, and for an empty text, it returns None.
C9_QuestionIffMark ==
    ret # "unset" =>
        /\ ret \in {"True", "None"}
        /\ (ret = "True") <=> IsQuestionText(loaded[1].text)
        /\ chat_data[1].text.val = <<>> => ret = "None"

\* a fragmented text of several sentences, the first without a mark
C9_Witness ==
    /\ ret = "True"
    /\ loaded[1].text.kind = "list"
    /\ Len(sent_tokenize(chat_data[1].text.val)) >= 2
    /\ ~ HasMarkIn(sent_tokenize(chat_data[1].text.val)[1])

\* C10: rebuild_msg returns a plain string unchanged, and applied to its own
\* output it returns that output.
C10_RebuildIdempotent ==
    \A k \in 1..Len(rb_hist) :
        /\ rb_hist[k].arg.kind = "str" => rb_hist[k].ret.val = rb_hist[k].arg.val
        /\ k > 1 => rb_hist[k].ret.val = rb_hist[k - 1].ret.val

\* a list of a string and a record with text, both non-empty, was rebuilt
\* and rebuild_msg was applied to the string that came out
C10_Witness ==
    /\ Len(rb_hist) = 2
    /\ rb_hist[1].arg.kind = "list"
    /\ Len(rb_hist[1].arg.val) = 2
    /\ rb_hist[1].arg.val[1].kind = "str" /\ rb_hist[1].arg.val[1].text # <<>>
    /\ rb_hist[1].arg.val[2].kind = "dict_text" /\ rb_hist[1].arg.val[2].text # <<>>
    /\ rb_hist[2].arg.kind = "str"
    /\ Len(rb_hist[2].ret.val) >= 2

====
